---- MODULE Spec2Model ----
(***************************************************************************)
(* Model of the VictorUno agent core (src/src/victoruno/core/agent.py):    *)
(* the conversation state, the four workflow nodes, the router, the graph  *)
(* wired by _create_workflow and run by app.ainvoke under a thread id with *)
(* a checkpointer, and the chat facade.                                    *)
(*                                                                         *)
(* The model is of the build in which the imports of agent.py lines 8-18   *)
(* succeed (LANGCHAIN_AVAILABLE = True), so that the graph built by        *)
(* _create_workflow is the one that runs.  The language model and the      *)
(* search capability are ports: each call either returns a value or        *)
(* raises.                                                                 *)
(*                                                                         *)
(* A Python string is modelled as a sequence of fragments whose            *)
(* concatenation is the string.  A user message is split into fragments of *)
(* one character each, so that substring search, replace and strip are     *)
(* computed on it as Python computes them; a fixed literal of the code is  *)
(* kept as one fragment.                                                   *)
(*                                                                         *)
(* Beside the agent core, the model has the capabilities behind the ports  *)
(* (integrations/documents.py, integrations/chrome.py), the retry          *)
(* decorator of utils/__init__.py and the websocket endpoint of            *)
(* web/main.py, each with a specification of its own.                      *)
(***************************************************************************)
EXTENDS Integers, Sequences, FiniteSets, TLC

\* ------------------------------------------------------------------ bounds
\* Number of chat calls made on the agent in one behaviour.
MaxCalls == 2
\* Length of the message histories the router is applied to on its own.
MaxHist == 2
\* the largest max_retries given to async_retry
MaxRetries == 3
\* the number of websockets that reach the endpoint /ws
MaxSockets == 2

\* ------------------------------------------------------------------ text
\* Python's None, where a field holds an optional string.
None == <<"<None>">>

UpperCase == <<"A","B","C","D","E","F","G","H","I","J","K","L","M",
               "N","O","P","Q","R","S","T","U","V","W","X","Y","Z">>
LowerCase == <<"a","b","c","d","e","f","g","h","i","j","k","l","m",
               "n","o","p","q","r","s","t","u","v","w","x","y","z">>
Whitespace == {" ", "\t", "\n", "\r"}

\* str.lower() on one character
LowerChar(c) ==
    IF \E i \in 1..26 : UpperCase[i] = c
    THEN LowerCase[CHOOSE i \in 1..26 : UpperCase[i] = c]
    ELSE c

\* str.lower()
Lower(s) == [i \in 1..Len(s) |-> LowerChar(s[i])]

\* `sub in s` for Python strings
Contains(s, sub) ==
    \E i \in 1..(Len(s) - Len(sub) + 1) : SubSeq(s, i, i + Len(sub) - 1) = sub

\* s.replace(old, ""): left to right, non-overlapping occurrences
Replace(s, old) ==
    LET from[t \in Seq(STRING)] ==
            IF Len(t) < Len(old) THEN t
            ELSE IF SubSeq(t, 1, Len(old)) = old
                 THEN from[SubSeq(t, Len(old) + 1, Len(t))]
                 ELSE <<Head(t)>> \o from[Tail(t)]
    IN from[s]

\* s.strip()
LStrip(s) ==
    LET from[t \in Seq(STRING)] ==
            IF t # <<>> /\ Head(t) \in Whitespace THEN from[Tail(t)] ELSE t
    IN from[s]
RStrip(s) ==
    LET from[t \in Seq(STRING)] ==
            IF t # <<>> /\ t[Len(t)] \in Whitespace THEN from[SubSeq(t, 1, Len(t) - 1)] ELSE t
    IN from[s]
Strip(s) == RStrip(LStrip(s))

\* the keyword literals of _route_request and _web_research
kw_document == <<"d","o","c","u","m","e","n","t">>
kw_file     == <<"f","i","l","e">>
kw_upload   == <<"u","p","l","o","a","d">>
kw_search   == <<"s","e","a","r","c","h">>
kw_research == <<"r","e","s","e","a","r","c","h">>
kw_browse   == <<"b","r","o","w","s","e">>
kw_web      == <<"w","e","b">>

DocumentKeywords == {kw_document, kw_file, kw_upload}
ResearchKeywords == {kw_search, kw_research, kw_browse, kw_web}

\* ------------------------------------------------------------------ inputs
\* The user messages the calls are made with.
msg_hello    == <<"h","e","l","l","o">>
msg_empty    == <<>>
msg_webinar  == <<"W","e","b","i","n","a","r">>
msg_love     == <<"I"," ","l","o","v","e"," ">> \o kw_research \o <<"i","n","g">>
msg_both     == kw_research \o <<" ">> \o kw_file
msg_upper    == <<"U","P","L","O","A","D">>
msg_searchsp == kw_search \o <<" ">>

UserMessages == {msg_hello, msg_empty, msg_webinar, msg_love, msg_both, msg_upper, msg_searchsp}

\* The messages the chat calls are made with: one per route.
ChatMessages == {msg_hello, msg_love, msg_both}

\* thread ids; "default" is the default of chat's thread_id parameter
ThreadIds == {"default", "t1"}

\* the values the language model returns (the empty reply included)
reply_ok    == <<"o","k">>
reply_empty == <<>>
Replies == {reply_ok, reply_empty}

\* str(e) of the exceptions the ports raise
err_model  == <<"ModelError">>
err_search == <<"SearchError">>
err_engine == <<"EngineError">>
err_key    == <<"KeyError">>

\* search results: a well-formed result has the keys title, url, description
res_T == [title |-> <<"T">>, url |-> <<"U">>, description |-> <<"D">>]
res_V == [title |-> <<"V">>, url |-> <<>>, description |-> <<>>]
res_bad == [url |-> <<"U">>, description |-> <<"D">>]
AllSearchReturns == {<<>>, <<res_T>>, <<res_T, res_V>>, <<res_V, res_bad>>}
\* what the search capability returns to the chat calls
SearchReturns == {<<res_T, res_V>>}

\* ------------------------------------------------------------------ data
\* Python dict operations
EmptyDict == [k \in {} |-> TRUE]
DictSet(d, k, v) == [x \in (DOMAIN d) \cup {k} |-> IF x = k THEN v ELSE d[x]]

HumanMessage(c)  == [type |-> "human",  content |-> c]
AIMessage(c)     == [type |-> "ai",     content |-> c]
SystemMessage(c) == [type |-> "system", content |-> c]

StateKeys == {"messages", "current_task", "context", "documents", "web_content"}

\* chat starting the run on an empty history
InitialState_NoMessages(message) ==
    [messages     |-> <<>>,
     current_task |-> None,
     context      |-> EmptyDict,
     documents    |-> <<>>,
     web_content  |-> None]

\* initial_state of chat
InitialState(message) ==
    [messages     |-> <<HumanMessage(message)>>,
     current_task |-> None,
     context      |-> EmptyDict,
     documents    |-> <<>>,
     web_content  |-> None]

Last(s) == s[Len(s)]

\* ------------------------------------------------------------------ router
\* the research keywords tested before the document keywords
RouteRequest_ResearchFirst(state) ==
    IF state.messages = <<>> THEN "chat"
    ELSE IF \E latest_message \in {Lower(Last(state.messages).content)} :
               \E keyword \in ResearchKeywords : Contains(latest_message, keyword)
         THEN "web_research"
         ELSE IF \E latest_message \in {Lower(Last(state.messages).content)} :
                    \E keyword \in DocumentKeywords : Contains(latest_message, keyword)
              THEN "documents"
              ELSE "chat"

RouteRequest(state) ==
    IF state.messages = <<>> THEN "chat"
    ELSE IF \E latest_message \in {Lower(Last(state.messages).content)} :
               \E keyword \in DocumentKeywords : Contains(latest_message, keyword)
         THEN "documents"
         ELSE IF \E latest_message \in {Lower(Last(state.messages).content)} :
                    \E keyword \in ResearchKeywords : Contains(latest_message, keyword)
              THEN "web_research"
              ELSE "chat"

\* ------------------------------------------------------------------ nodes
\* the outcome of a call: a returned value or a raised exception
Returned(v) == [ok |-> TRUE, value |-> v]
Raised(e)   == [ok |-> FALSE, value |-> e]

\* the task taken from the first message of the history
ProcessInput_FirstMessage(state) ==
    Returned(IF state.messages # <<>>
             THEN [state EXCEPT !.current_task = Head(state.messages).content]
             ELSE state)

ProcessInput(state) ==
    Returned(IF state.messages # <<>>
             THEN [state EXCEPT !.current_task = Last(state.messages).content]
             ELSE state)

\* the node keeping the text of the message as a document
HandleDocuments_StoresDocument(state) ==
    Returned([state EXCEPT !.context = DictSet(@, "document_processed", TRUE),
                           !.documents = IF state.messages = <<>> THEN @
                                         ELSE Append(@, Last(state.messages).content)])

HandleDocuments(state) ==
    Returned([state EXCEPT !.context = DictSet(@, "document_processed", TRUE)])

\* query extraction of _web_research
ExtractQuery(latest_message) ==
    Strip(Replace(Replace(latest_message, kw_search), kw_research))

ResultKeys == {"title", "url", "description"}

\* the results listed last to first
RECURSIVE FormatResults_Reversed(_, _)
FormatResults_Reversed(search_results, i) ==
    IF i > Len(search_results) THEN <<>>
    ELSE LET result == search_results[Len(search_results) + 1 - i] IN
         <<ToString(i), ". ">> \o result.title \o <<"\n">>
         \o <<"   URL: ">> \o result.url \o <<"\n">>
         \o <<"   Description: ">> \o result.description \o <<"\n\n">>
         \o FormatResults_Reversed(search_results, i + 1)

\* the format loop of _web_research, from the i-th result on
RECURSIVE FormatResults(_, _)
FormatResults(search_results, i) ==
    IF i > Len(search_results) THEN <<>>
    ELSE LET result == search_results[i] IN
         <<ToString(i), ". ">> \o result.title \o <<"\n">>
         \o <<"   URL: ">> \o result.url \o <<"\n">>
         \o <<"   Description: ">> \o result.description \o <<"\n\n">>
         \o FormatResults(search_results, i + 1)

\* result['title'] etc. raise KeyError on a result that lacks the key
FormatRaises(search_results) ==
    \E i \in 1..Len(search_results) : ~(ResultKeys \subseteq DOMAIN search_results[i])

\* the search awaited outside the try block: its exception leaves the node
WebResearch_Propagates(state, outcome) ==
    IF state.messages = <<>> THEN Returned(state)
    ELSE IF ~outcome.ok THEN Raised(outcome.value)
         ELSE IF FormatRaises(outcome.value) THEN Raised(err_key)
              ELSE Returned([state EXCEPT !.web_content =
                       <<"Web search results:\n\n">> \o FormatResults(outcome.value, 1)])

\* outcome is what search_web does when it is awaited
WebResearch(state, outcome) ==
    IF state.messages = <<>> THEN Returned(state)
    ELSE IF outcome.ok /\ ~FormatRaises(outcome.value)
         THEN Returned([state EXCEPT !.web_content =
                   <<"Web search results:\n\n">> \o FormatResults(outcome.value, 1)])
         ELSE Returned([state EXCEPT !.web_content =
                   <<"Web research encountered an error: ">>
                   \o (IF outcome.ok THEN err_key ELSE outcome.value)])

\* str() of the documents list, as the f-string of the system message renders it
RECURSIVE ListRepr(_)
ListRepr(documents) ==
    IF documents = <<>> THEN <<>>
    ELSE <<"'">> \o Head(documents) \o <<"'">>
         \o (IF Len(documents) > 1 THEN <<", ">> ELSE <<>>) \o ListRepr(Tail(documents))

SystemPrompt(state) ==
    SystemMessage(<<"You are VictorUno ... Context from documents: ">>
                  \o <<"[">> \o ListRepr(state.documents) \o <<"]">>
                  \o <<"\nWeb content: ">>
                  \o (IF state.web_content = None THEN <<"None">> ELSE state.web_content)
                  \o <<"\n\nBe helpful, accurate, and concise in your responses.\n">>)

\* what is handed to the language model
LlmInput(state) == <<SystemPrompt(state)>> \o state.messages

\* a reply equal to the last message is not appended again
GenerateResponse_Dedup(state, outcome) ==
    LET reply == AIMessage(IF outcome.ok THEN outcome.value
                           ELSE <<"I apologize, but I encountered an error: ">>
                                \o outcome.value)
    IN Returned(IF state.messages # <<>> /\ Last(state.messages) = reply THEN state
                ELSE [state EXCEPT !.messages = Append(@, reply)])

\* the except clause that only logs the error
GenerateResponse_SilentOnError(state, outcome) ==
    IF outcome.ok
    THEN Returned([state EXCEPT !.messages = Append(@, AIMessage(outcome.value))])
    ELSE Returned(state)

\* outcome is what the chain prompt | llm | StrOutputParser does when invoked
GenerateResponse(state, outcome) ==
    IF outcome.ok
    THEN Returned([state EXCEPT !.messages = Append(@, AIMessage(outcome.value))])
    ELSE Returned([state EXCEPT !.messages =
              Append(@, AIMessage(<<"I apologize, but I encountered an error: ">>
                                  \o outcome.value))])

\* a call of a capability: the port and the arguments it is called with
PortCall(port, args) == [port |-> port, args |-> args]

\* the capability calls a node makes when it is executed on a state, in order
NodeCalls(node, state) ==
    CASE node = "process_input"     -> <<>>
      [] node = "handle_documents"  -> <<>>
      [] node = "web_research"      ->
            IF state.messages = <<>> THEN <<>>
            ELSE <<PortCall("search_web",
                            [query |-> ExtractQuery(Last(state.messages).content),
                             num_results |-> 3])>>
      [] node = "generate_response" ->
            <<PortCall("llm", [messages |-> LlmInput(state)])>>

\* ------------------------------------------------------------------ graph
\* the edges of _create_workflow
EntryPoint == "process_input"
END == "END"
\* the documents branch wired to the research node
ConditionalEdges_Crossed == [documents    |-> "web_research",
                             web_research |-> "web_research",
                             chat         |-> "generate_response"]
ConditionalEdges == [documents    |-> "handle_documents",
                     web_research |-> "web_research",
                     chat         |-> "generate_response"]
\* the documents node followed by the research node
Edges_ThroughResearch == [handle_documents  |-> "web_research",
                          web_research      |-> "generate_response",
                          generate_response |-> END]
Edges == [handle_documents  |-> "generate_response",
          web_research      |-> "generate_response",
          generate_response |-> END]

\* ------------------------------------------------------------------ checkpointer
\* the config left out of the call of ainvoke: every run under one key
ConfigKey_Shared(thread_id) == "default"

\* the key a run's checkpoints are stored under: config["configurable"]["thread_id"]
ConfigKey(thread_id) == thread_id

\* the messages of the input appended to those of the checkpoint
ApplyInput_AddsMessages(loaded, input) ==
    [k \in (DOMAIN loaded) \cup (DOMAIN input) |->
        IF k \notin DOMAIN input THEN loaded[k]
        ELSE IF k = "messages" /\ k \in DOMAIN loaded THEN loaded[k] \o input[k]
        ELSE input[k]]

\* an input value of None or {} does not replace the value of the checkpoint
ApplyInput_KeepsLoaded(loaded, input) ==
    [k \in (DOMAIN loaded) \cup (DOMAIN input) |->
        IF k \notin DOMAIN input THEN loaded[k]
        ELSE IF k \in DOMAIN loaded /\ k \in {"web_content", "context"} THEN loaded[k]
        ELSE input[k]]

\* the channels of a run at its start: the checkpoint of the thread, then the
\* input written over it key by key (AgentState declares no reducer)
ApplyInput(loaded, input) ==
    [k \in (DOMAIN loaded) \cup (DOMAIN input) |->
        IF k \in DOMAIN input THEN input[k] ELSE loaded[k]]

\* a web_content of None does not replace the one stored
Put_KeepsWebContent(store, key, state) ==
    DictSet(store, key,
            IF key \in DOMAIN store /\ state.web_content = None
            THEN [state EXCEPT !.web_content = store[key].web_content]
            ELSE state)

\* put(thread, state): the whole state replaces the thread's checkpoint
Put(store, key, state) == DictSet(store, key, state)

\* get(thread): the thread's checkpoint, or no channel at all
Get(store, key) == IF key \in DOMAIN store THEN store[key] ELSE EmptyDict

\* ------------------------------------------------------------------ chat
FallbackReply == <<"I'm sorry, I couldn't generate a response.">>

\* the string chat returns from the result of ainvoke
RECURSIVE AIMessages(_)
AIMessages(messages) ==
    IF messages = <<>> THEN <<>>
    ELSE (IF Head(messages).type = "ai" THEN <<Head(messages)>> ELSE <<>>)
         \o AIMessages(Tail(messages))

\* ai_messages[0] in place of ai_messages[-1]
ExtractReply_First(result) ==
    LET ai_messages == AIMessages(result.messages) IN
    IF ai_messages # <<>> THEN Head(ai_messages).content ELSE FallbackReply

ExtractReply(result) ==
    LET ai_messages == AIMessages(result.messages) IN
    IF ai_messages # <<>> THEN Last(ai_messages).content ELSE FallbackReply

ChatError(e) == <<"I encountered an error: ">> \o e

\* no except clause: the exception leaves chat
Caught_Reraised(e) == [result |-> None, raised |-> TRUE]

\* what chat does with an exception raised inside its try block
Caught(e) == [result |-> ChatError(e), raised |-> FALSE]

\* ------------------------------------------------------------------ the other facade operations
\* Each operation is given the agent (its checkpointer and its memory) and what
\* the capability it awaits does, and yields the agent after the call, the value
\* returned, whether an exception left the operation, and the capability calls
\* made.
Done(agent, result, raised, ports) ==
    [agent |-> agent, result |-> result, raised |-> raised, ports |-> ports]

\* the file the document capability is given
path_report == <<"report.txt">>
FilePaths == {path_report}

\* what document_processor.process_document returns: a processed file, a file
\* that could not be processed, a result without the counts
doc_ok     == [success |-> TRUE, filename |-> path_report, word_count |-> 2,
               char_count |-> 11, message |-> <<"Successfully processed report.txt">>]
doc_failed == [success |-> FALSE, filename |-> path_report, word_count |-> 0,
               char_count |-> 0,
               message |-> <<"Error processing document: File not found: report.txt">>]
doc_bad    == [success |-> TRUE, filename |-> path_report]
err_doc    == <<"DocumentError">>
DocumentOutcomes == {Returned(doc_ok), Returned(doc_failed), Returned(doc_bad), Raised(err_doc)}

\* the keys process_document reads of a result
DocumentRaises(result) ==
    \/ "success" \notin DOMAIN result
    \/ result.success /\ ~({"filename", "word_count", "char_count"} \subseteq DOMAIN result)
    \/ ~result.success /\ "message" \notin DOMAIN result

DocumentError(e) == <<"Error processing document: ">> \o e

\* the failure reported in the operation's own words
DocumentReply_OwnMessage(outcome) ==
    IF ~outcome.ok THEN DocumentError(outcome.value)
    ELSE IF DocumentRaises(outcome.value) THEN DocumentError(err_key)
    ELSE IF outcome.value.success
         THEN <<"Successfully processed '">> \o outcome.value.filename \o <<"'. ">>
              \o <<"Content: ", ToString(outcome.value.word_count), " words, ",
                   ToString(outcome.value.char_count), " characters.",
                   " The document content is now available for our conversation.">>
         ELSE DocumentError(<<"could not process the file">>)

\* the string process_document returns; outcome is what
\* document_processor.process_document does when it is awaited
DocumentReply(outcome) ==
    IF ~outcome.ok THEN DocumentError(outcome.value)
    ELSE IF DocumentRaises(outcome.value) THEN DocumentError(err_key)
    ELSE IF outcome.value.success
         THEN <<"Successfully processed '">> \o outcome.value.filename \o <<"'. ">>
              \o <<"Content: ", ToString(outcome.value.word_count), " words, ",
                   ToString(outcome.value.char_count), " characters.",
                   " The document content is now available for our conversation.">>
         ELSE outcome.value.message

\* the name of the file kept in the documents of every thread's checkpoint
ProcessDocument_StoresContent(agent, file_path, outcome) ==
    Done([agent EXCEPT !.checkpoints =
              [t \in DOMAIN @ |-> [@[t] EXCEPT !.documents = Append(@, file_path)]]],
         DocumentReply(outcome), FALSE,
         <<PortCall("process_document", [file_path |-> file_path])>>)

ProcessDocument(agent, file_path, outcome) ==
    Done(agent, DocumentReply(outcome), FALSE,
         <<PortCall("process_document", [file_path |-> file_path])>>)

\* queries of web_search
query_q     == <<"q">>
query_empty == <<>>
Queries == {query_q, query_empty}

\* ChromeIntegration.search_web.  backend is the library the build has
\* ("playwright", "selenium" or "none"); found is what the search with that
\* library does.
res_unavailable ==
    [title |-> <<"Chrome Integration Not Available">>, url |-> <<>>,
     description |-> <<"Neither Selenium nor Playwright is installed. Please install one of them for web search functionality.">>]
SearchErrorResult(e) ==
    [title |-> <<"Search Error">>, url |-> <<>>,
     description |-> <<"An error occurred during web search: ">> \o e]
Backends == {"playwright", "selenium", "none"}
SearchWeb(backend, found) ==
    IF backend = "none" THEN Returned(<<res_unavailable>>)
    ELSE IF found.ok THEN found
         ELSE Returned(<<SearchErrorResult(found.value)>>)

\* what the search with a library does: no result, results, an exception
FoundOutcomes == {Returned(<<>>), Returned(<<res_T>>), Returned(<<res_T, res_V>>),
                  Raised(err_search)}
\* what search_web does when web_search awaits it: the outcomes of
\* ChromeIntegration.search_web, and those of a search capability that raises
\* or returns a result without a title
WebSearchOutcomes ==
    {SearchWeb(backend, found) : backend \in Backends, found \in FoundOutcomes}
    \cup {Raised(err_search), Returned(<<res_V, res_bad>>)}

\* the description written before the URL
RECURSIVE FormatSearch_DescriptionFirst(_, _)
FormatSearch_DescriptionFirst(search_results, i) ==
    IF i > Len(search_results) THEN <<>>
    ELSE LET result == search_results[i] IN
         <<ToString(i), ". **">> \o result.title \o <<"**\n">>
         \o (IF result.description # <<>>
             THEN <<"   Description: ">> \o result.description \o <<"\n">> ELSE <<>>)
         \o <<"   URL: ">> \o result.url \o <<"\n">>
         \o <<"\n">>
         \o FormatSearch_DescriptionFirst(search_results, i + 1)

\* the format loop of web_search, from the i-th result on
RECURSIVE FormatSearch(_, _)
FormatSearch(search_results, i) ==
    IF i > Len(search_results) THEN <<>>
    ELSE LET result == search_results[i] IN
         <<ToString(i), ". **">> \o result.title \o <<"**\n">>
         \o <<"   URL: ">> \o result.url \o <<"\n">>
         \o (IF result.description # <<>>
             THEN <<"   Description: ">> \o result.description \o <<"\n">> ELSE <<>>)
         \o <<"\n">>
         \o FormatSearch(search_results, i + 1)

NoResults == <<"No search results found.">>
SearchError(e) == <<"Error performing web search: ">> \o e

\* outcome is what search_web does when it is awaited
WebSearch(agent, query, outcome) ==
    Done(agent,
         IF ~outcome.ok THEN SearchError(outcome.value)
         ELSE IF outcome.value = <<>> THEN NoResults
         ELSE IF FormatRaises(outcome.value) THEN SearchError(err_key)
         ELSE <<"Web search results for '">> \o query \o <<"':\n\n">>
              \o FormatSearch(outcome.value, 1),
         FALSE,
         <<PortCall("search_web", [query |-> query, num_results |-> 5])>>)

\* ConversationBufferMemory.clear together with a note of the reset
MemoryClear_Noted(messages) == IF messages = <<>> THEN <<"reset">> ELSE <<>>

\* ConversationBufferMemory.clear
MemoryClear(messages) == <<>>

\* the checkpoint of the thread deleted with the memory
ResetConversation_DropsCheckpoint(agent, thread_id) ==
    Done([agent EXCEPT !.memory = MemoryClear(@),
                       !.checkpoints = [t \in DOMAIN @ \ {ConfigKey(thread_id)} |-> @[t]]],
         None, FALSE, <<>>)

ResetConversation(agent, thread_id) ==
    Done([agent EXCEPT !.memory = MemoryClear(@)], None, FALSE, <<>>)

\* ------------------------------------------------------------------ state
VARIABLES
    calls,        \* the chat calls: position, arguments, the state of the run
    checkpoints,  \* the checkpointer of the compiled graph: thread key -> state
    probe,        \* what a function is applied to on its own, and what it makes of it
    memory,       \* self.memory: the messages of the ConversationBufferMemory
    facade,       \* the last process_document, web_search or reset_conversation call made
    retry,        \* a call of a coroutine wrapped by async_retry
    manager       \* the ConnectionManager of the web application and its websockets

vars == <<calls, checkpoints, probe, memory, facade, retry, manager>>

Calls == 1..MaxCalls
NodeNames == {"process_input", "handle_documents", "web_research", "generate_response"}

\* A call before chat is entered.  The fields after state record what the run did:
\* the nodes executed, the router's result, the query handed to the search
\* capability, the number of searches and the outcome of the search, the input
\* and the outcome of the language model, the checkpoint found under the thread, the checkpoint keys
\* used, whether chat's except clause ran and whether chat raised.
IdleCall ==
    [pc |-> "idle", thread |-> "", message |-> None, state |-> EmptyDict,
     result |-> None, raised |-> FALSE, caught |-> FALSE,
     trace |-> <<>>, route |-> "", query |-> None, searched |-> 0,
     llm_in |-> <<>>, llm_out |-> Raised(None), prior |-> EmptyDict, keys |-> {},
     search_out |-> Raised(None)]

NoProbe ==
    [op |-> "", before |-> EmptyDict, state |-> EmptyDict, outcome |-> Raised(None),
     route |-> "", reply |-> None, raised |-> FALSE, ports |-> <<>>]

\* the wrapper of async_retry before it is called
NoRetry ==
    [pc |-> "idle", max_retries |-> 0, delay |-> 0, attempt |-> 0, outcomes |-> <<>>,
     sleeps |-> <<>>, last_exception |-> None, result |-> None, error |-> None]

\* ConnectionManager.__init__: no connection; no websocket has reached the
\* endpoint, nothing was broadcast
WebSockets == 1..MaxSockets
NoConnections ==
    [active_connections |-> <<>>, handler |-> [w \in WebSockets |-> "new"], sent |-> <<>>]

\* no call of process_document, web_search or reset_conversation made yet
NoFacadeCall ==
    [op |-> "", arg |-> None, outcome |-> Raised(None), result |-> None, raised |-> FALSE,
     ports |-> <<>>, at |-> [c \in Calls |-> "idle"]]

Init ==
    /\ calls = [c \in Calls |-> IdleCall]
    /\ checkpoints = EmptyDict
    /\ probe = NoProbe
    /\ memory = <<>>
    /\ facade = NoFacadeCall
    /\ retry = NoRetry
    /\ manager = NoConnections

Node(c) == calls[c].pc

\* chat, up to the first suspension of ainvoke: initial_state is built, the
\* thread's checkpoint is read, the input is written over it and checkpointed.
\* Calls are numbered in the order they are made.
ChatStart(c, message, thread_id) ==
    /\ Node(c) = "idle"
    /\ \A d \in Calls : d < c => Node(d) # "idle"
    /\ LET key    == ConfigKey(thread_id)
           loaded == Get(checkpoints, key)
           state  == ApplyInput(loaded, InitialState(message))
       IN /\ calls' = [calls EXCEPT ![c] =
                 [@ EXCEPT !.pc = EntryPoint, !.thread = thread_id, !.message = message,
                           !.state = state, !.prior = loaded, !.keys = {key}]]
          /\ checkpoints' = Put(checkpoints, key, state)
    /\ UNCHANGED <<probe, memory, facade, retry, manager>>

\* chat's except clause: the call returns the error string
Except(c, e, call) ==
    /\ calls' = [calls EXCEPT ![c] =
           [call EXCEPT !.pc = "returned", !.caught = TRUE,
                        !.result = Caught(e).result, !.raised = Caught(e).raised]]
    /\ UNCHANGED <<checkpoints, probe, memory, facade, retry, manager>>

\* one superstep of the run.  When the node returns, its result becomes the
\* state of the run and is checkpointed under the run's thread; when the edge
\* taken leads to END, ainvoke returns that state and chat, which does not
\* suspend again, returns the reply extracted from it.  When the node raises,
\* the exception leaves ainvoke and reaches chat's except clause.
Superstep(c, node, done, next, call) ==
    \E ran \in {[call EXCEPT !.trace = Append(@, node)]} :
        IF done.ok
        THEN /\ calls' = [calls EXCEPT ![c] =
                    [ran EXCEPT !.pc = IF next = END THEN "returned" ELSE next,
                                !.state = done.value,
                                !.result = IF next = END THEN ExtractReply(done.value) ELSE @,
                                !.keys = @ \cup {ConfigKey(ran.thread)}]]
             /\ checkpoints' = Put(checkpoints, ConfigKey(ran.thread), done.value)
             /\ UNCHANGED <<probe, memory, facade, retry, manager>>
        ELSE Except(c, done.value, ran)

RunProcessInput(c) ==
    /\ Node(c) = "process_input"
    /\ \E done \in {ProcessInput(calls[c].state)} :
       \E route \in {IF done.ok THEN RouteRequest(done.value) ELSE ""} :
          Superstep(c, "process_input", done,
                    IF done.ok THEN ConditionalEdges[route] ELSE END,
                    [calls[c] EXCEPT !.route = route])

RunHandleDocuments(c) ==
    /\ Node(c) = "handle_documents"
    /\ \E done \in {HandleDocuments(calls[c].state)} :
          Superstep(c, "handle_documents", done, Edges["handle_documents"], calls[c])

RunWebResearch(c, outcome) ==
    /\ Node(c) = "web_research"
    /\ \E done \in {WebResearch(calls[c].state, outcome)} :
          LET state == calls[c].state
              asked == state.messages # <<>>
          IN Superstep(c, "web_research", done, Edges["web_research"],
                       [calls[c] EXCEPT
                          !.query = IF asked THEN ExtractQuery(Last(state.messages).content)
                                    ELSE @,
                          !.searched = IF asked THEN @ + 1 ELSE @,
                          !.search_out = IF asked THEN outcome ELSE @])

RunGenerateResponse(c, outcome) ==
    /\ Node(c) = "generate_response"
    /\ \E done \in {GenerateResponse(calls[c].state, outcome)} :
          Superstep(c, "generate_response", done, Edges["generate_response"],
                    [calls[c] EXCEPT !.llm_in = LlmInput(calls[c].state), !.llm_out = outcome])

\* ainvoke itself raises between two supersteps
ChatExcept(c) ==
    /\ Node(c) \in NodeNames
    /\ Except(c, err_engine, calls[c])

LlmOutcomes == {Returned(r) : r \in Replies} \cup {Raised(err_model)}
SearchOutcomes == {Returned(r) : r \in SearchReturns} \cup {Raised(err_search)}

\* the steps of chat when the workflow engine itself does not fail
RunNext ==
    \/ \E c \in Calls, message \in ChatMessages, thread_id \in ThreadIds :
          ChatStart(c, message, thread_id)
    \/ \E c \in Calls : RunProcessInput(c)
    \/ \E c \in Calls : RunHandleDocuments(c)
    \/ \E c \in Calls, outcome \in SearchOutcomes : RunWebResearch(c, outcome)
    \/ \E c \in Calls, outcome \in LlmOutcomes : RunGenerateResponse(c, outcome)

Next ==
    \/ RunNext
    \/ \E c \in Calls : ChatExcept(c)

Spec == Init /\ [][Next]_vars

\* ------------------------------------------------------------------ the facade
\* The other operations of the facade, called while chat calls are running or
\* between them.  process_document and web_search suspend once, on the
\* capability they await, and hold nothing of the agent meanwhile: each is one
\* step, taken when the capability has answered.
Agent == [checkpoints |-> checkpoints, memory |-> memory]

\* The call is recorded with its argument, what the capability did, what the
\* call returned, and where each chat call was when it was made.
FacadeCall(op, arg, outcome, done) ==
    /\ checkpoints' = done.agent.checkpoints
    /\ memory' = done.agent.memory
    /\ facade' = [op |-> op, arg |-> arg, outcome |-> outcome,
                  result |-> done.result, raised |-> done.raised, ports |-> done.ports,
                  at |-> [c \in Calls |-> calls[c].pc]]
    /\ UNCHANGED <<calls, probe, retry, manager>>

CallProcessDocument(file_path, outcome) ==
    \E done \in {ProcessDocument(Agent, file_path, outcome)} :
        FacadeCall("process_document", file_path, outcome, done)

CallWebSearch(query, outcome) ==
    \E done \in {WebSearch(Agent, query, outcome)} :
        FacadeCall("web_search", query, outcome, done)

CallResetConversation(thread_id) ==
    \E done \in {ResetConversation(Agent, thread_id)} :
        FacadeCall("reset_conversation", thread_id, Returned(None), done)

\* one chat call, and documents processed and searches made before, during and
\* after its run
FacadeNext ==
    \/ \E message \in ChatMessages, thread_id \in ThreadIds : ChatStart(1, message, thread_id)
    \/ RunProcessInput(1)
    \/ RunHandleDocuments(1)
    \/ \E outcome \in SearchOutcomes : RunWebResearch(1, outcome)
    \/ \E outcome \in LlmOutcomes : RunGenerateResponse(1, outcome)
    \/ \E file_path \in FilePaths, outcome \in DocumentOutcomes :
          CallProcessDocument(file_path, outcome)
    \/ \E query \in Queries, outcome \in WebSearchOutcomes : CallWebSearch(query, outcome)

FacadeSpec == Init /\ [][FacadeNext]_vars

\* chat calls that take the chat route, and resets before, during and after
\* their runs
ResetNext ==
    \/ \E c \in Calls, thread_id \in ThreadIds : ChatStart(c, msg_hello, thread_id)
    \/ \E c \in Calls : RunProcessInput(c)
    \/ \E c \in Calls, outcome \in LlmOutcomes : RunGenerateResponse(c, outcome)
    \/ \E thread_id \in ThreadIds : CallResetConversation(thread_id)

ResetSpec == Init /\ [][ResetNext]_vars

\* ------------------------------------------------------------------ the nodes on their own
\* The router, each node and the reply extraction applied once to a state whose
\* message history is arbitrary: none, one or several messages of either kind.
ProbeMessages == {HumanMessage(t) : t \in UserMessages} \cup {AIMessage(t) : t \in UserMessages}
Histories == UNION {[1..n -> ProbeMessages] : n \in 0..MaxHist}
ProbeStates == {[InitialState(None) EXCEPT !.messages = h] : h \in Histories}

PureInit ==
    /\ calls = [c \in Calls |-> IdleCall]
    /\ checkpoints = EmptyDict
    /\ probe \in {[NoProbe EXCEPT !.before = s, !.state = s] : s \in ProbeStates}
    /\ memory = <<>>
    /\ facade = NoFacadeCall
    /\ retry = NoRetry
    /\ manager = NoConnections

\* a node function applied to the state: the state it returns, or that it raised,
\* and the capability calls it made
ProbeNode(op, done, outcome) ==
    /\ probe.op = ""
    /\ probe' = [probe EXCEPT !.op = op, !.outcome = outcome,
                              !.state = IF done.ok THEN done.value ELSE @,
                              !.raised = ~done.ok,
                              !.ports = NodeCalls(op, probe.state)]
    /\ UNCHANGED <<calls, checkpoints, memory, facade, retry, manager>>

ProbeRouteRequest ==
    /\ probe.op = ""
    /\ probe' = [probe EXCEPT !.op = "route_request", !.route = RouteRequest(probe.state)]
    /\ UNCHANGED <<calls, checkpoints, memory, facade, retry, manager>>

ProbeProcessInput == ProbeNode("process_input", ProcessInput(probe.state), Raised(None))

ProbeHandleDocuments == ProbeNode("handle_documents", HandleDocuments(probe.state), Raised(None))

ProbeWebResearch(outcome) == ProbeNode("web_research", WebResearch(probe.state, outcome), outcome)

\* the last superstep of a run and the return of chat
ProbeGenerateResponse(outcome) ==
    /\ probe.op = ""
    /\ \E done \in {GenerateResponse(probe.state, outcome)} :
          /\ done.ok
          /\ probe' = [probe EXCEPT !.op = "generate_response", !.state = done.value,
                                    !.outcome = outcome, !.reply = ExtractReply(done.value),
                                    !.ports = NodeCalls("generate_response", probe.state)]
    /\ UNCHANGED <<calls, checkpoints, memory, facade, retry, manager>>

\* the end of chat on the result of ainvoke
ProbeExtractReply ==
    /\ probe.op = ""
    /\ probe' = [probe EXCEPT !.op = "extract_reply", !.reply = ExtractReply(probe.state)]
    /\ UNCHANGED <<calls, checkpoints, memory, facade, retry, manager>>

AllSearchOutcomes == {Returned(r) : r \in AllSearchReturns} \cup {Raised(err_search)}

PureNext ==
    \/ ProbeRouteRequest
    \/ ProbeProcessInput
    \/ ProbeHandleDocuments
    \/ \E outcome \in AllSearchOutcomes : ProbeWebResearch(outcome)
    \/ \E outcome \in LlmOutcomes : ProbeGenerateResponse(outcome)
    \/ ProbeExtractReply

PureSpec == PureInit /\ [][PureNext]_vars

\* ------------------------------------------------------------------ scheduling
\* The event loop resumes a run that is ready, and a capability that is awaited
\* returns or raises: while some started run has a step to take, a step of a
\* started run is taken.  (Runs are finite, so every started run gets its steps.)
\* The workflow engine itself does not fail here.
RunStep ==
    \E c \in Calls :
        \/ RunProcessInput(c)
        \/ RunHandleDocuments(c)
        \/ \E outcome \in SearchOutcomes : RunWebResearch(c, outcome)
        \/ \E outcome \in LlmOutcomes : RunGenerateResponse(c, outcome)

Fairness == WF_vars(RunStep)

LiveSpec == Init /\ [][RunNext]_vars /\ Fairness

\* ------------------------------------------------------------------ DocumentProcessor
\* integrations/documents.py.  A file is what the file system holds under a
\* path: whether it exists, the size stat reports, whether it can be opened,
\* and its bytes; the bytes are one of a few byte strings, each given with what
\* the codecs and the parsers make of it.
max_file_size == 10 * 1024 * 1024

\* an exception: its class and str() of it
Exc(type, text) == [type |-> type, text |-> text]

ext_txt  == <<".", "t", "x", "t">>
ext_TXT  == <<".", "T", "X", "T">>
ext_md   == <<".", "m", "d">>
ext_pdf  == <<".", "p", "d", "f">>
ext_docx == <<".", "d", "o", "c", "x">>
ext_html == <<".", "h", "t", "m", "l">>
ext_htm  == <<".", "h", "t", "m">>
ext_bin  == <<".", "b", "i", "n">>
ext_none == <<>>
Suffixes == {ext_txt, ext_TXT, ext_md, ext_pdf, ext_docx, ext_html, ext_htm, ext_bin, ext_none}

\* bytes: b"hello w", b"", b"<ff>", a PNG header (even length, no byte order
\* mark), b"<ff><fe>h<00>" (UTF-16 with byte order mark), a PDF file, a DOCX
\* file, b"<p>hi</p>"
Bytes == {"text", "empty", "odd_binary", "even_binary", "utf16_bom", "pdf", "docx", "html"}

text_hello == <<"h", "e", "l", "l", "o", " ", "w">>
text_html  == <<"<", "p", ">", "h", "i", "<", "/", "p", ">">>

\* bytes.decode(encoding) as open(..., encoding=encoding).read() does it
Decode(bytes, encoding) ==
    CASE encoding = "utf-8" ->
            (CASE bytes = "text"  -> Returned(text_hello)
               [] bytes = "empty" -> Returned(<<>>)
               [] bytes = "html"  -> Returned(text_html)
               [] OTHER -> Raised(Exc("UnicodeDecodeError",
                                      <<"'utf-8' codec can't decode byte">>)))
      [] encoding = "utf-16" ->
            (CASE bytes = "empty"     -> Returned(<<>>)
               [] bytes = "utf16_bom" -> Returned(<<"h">>)
               [] bytes \in {"text", "html", "odd_binary"} ->
                     Raised(Exc("UnicodeDecodeError", <<"'utf-16-le' codec can't decode byte">>))
               [] OTHER -> Raised(Exc("UnicodeError",
                                      <<"UTF-16 stream does not start with BOM">>)))
      [] OTHER ->
            (CASE bytes = "text"        -> Returned(text_hello)
               [] bytes = "empty"       -> Returned(<<>>)
               [] bytes = "html"        -> Returned(text_html)
               [] bytes = "odd_binary"  -> Returned(<<"<ff>">>)
               [] bytes = "utf16_bom"   -> Returned(<<"<ff>", "<fe>", "h", "<00>">>)
               [] bytes = "even_binary" -> Returned(<<"<89>", "P", "N", "G", "\n", "<1a>", "\n", "<00>">>)
               [] bytes = "pdf"         -> Returned(<<"%", "P", "D", "F", "-", "1", ".", "4", "\n", "<e2>">>)
               [] OTHER                 -> Returned(<<"P", "K", "<03>", "<04>">>))

\* open(file_path, 'r', encoding=encoding) and file.read()
Read(file, encoding) ==
    IF ~file.readable
    THEN Raised(Exc("PermissionError", <<"[Errno 13] Permission denied: ">> \o file.path))
    ELSE Decode(file.bytes, encoding)

Encodings == <<"utf-8", "utf-16", "latin-1", "cp1252">>

\* _process_text: only UnicodeDecodeError moves on to the next encoding; any
\* exception leaves as an Exception
DP_ProcessText(file) ==
    LET try[i \in 1..(Len(Encodings) + 1)] ==
            IF i > Len(Encodings)
            THEN Raised(Exc("TypeError", <<"function takes exactly 5 arguments (1 given)">>))
            ELSE LET r == Read(file, Encodings[i])
                 IN IF ~r.ok /\ r.value.type = "UnicodeDecodeError" THEN try[i + 1] ELSE r
        r == try[1]
    IN IF r.ok THEN r
       ELSE Raised(Exc("Exception", <<"Error reading text file: ">> \o r.value.text))

\* _process_pdf
DP_ProcessPdf(file, env) ==
    IF ~env.PDF_AVAILABLE
    THEN Raised(Exc("ImportError", <<"PyPDF2 is not installed. Cannot process PDF files.">>))
    ELSE IF ~file.readable
    THEN Raised(Exc("Exception", <<"Error reading PDF file: ", "[Errno 13] Permission denied: ">>
                                 \o file.path))
    ELSE IF file.bytes = "pdf"
    THEN Returned(<<"-", "-", "-", " ", "P", "a", "g", "e", " ", "1", " ", "-", "-", "-", "\n">>
                  \o text_hello)
    ELSE IF file.bytes = "empty"
    THEN Raised(Exc("Exception", <<"Error reading PDF file: ", "Cannot read an empty file">>))
    ELSE Raised(Exc("Exception", <<"Error reading PDF file: ", "EOF marker not found">>))

\* _process_docx
DP_ProcessDocx(file, env) ==
    IF ~env.DOCX_AVAILABLE
    THEN Raised(Exc("ImportError", <<"python-docx is not installed. Cannot process DOCX files.">>))
    ELSE IF ~file.readable
    THEN Raised(Exc("Exception", <<"Error reading DOCX file: ", "[Errno 13] Permission denied: ">>
                                 \o file.path))
    ELSE IF file.bytes = "docx"
    THEN Returned(text_hello)
    ELSE Raised(Exc("Exception", <<"Error reading DOCX file: ", "File is not a zip file">>))

\* _process_html: the text of the document with BeautifulSoup, the raw file
\* without
DP_ProcessHtml(file, env) ==
    LET r == Read(file, "utf-8")
    IN IF ~r.ok
       THEN Raised(Exc("Exception", <<"Error reading HTML file: ">> \o r.value.text))
       ELSE IF env.BS4_AVAILABLE /\ file.bytes = "html"
       THEN Returned(<<"h", "i">>)
       ELSE r

\* mimetypes.guess_type
MimeType(suffix) ==
    CASE Lower(suffix) = ext_txt  -> <<"text/plain">>
      [] Lower(suffix) = ext_md   -> <<"text/markdown">>
      [] Lower(suffix) = ext_pdf  -> <<"application/pdf">>
      [] Lower(suffix) = ext_docx ->
            <<"application/vnd.openxmlformats-officedocument.wordprocessingml.document">>
      [] Lower(suffix) \in {ext_html, ext_htm} -> <<"text/html">>
      [] Lower(suffix) = ext_bin  -> <<"application/octet-stream">>
      [] OTHER -> None

\* len(content.split())
WordCount(content) ==
    Cardinality({i \in 1..Len(content) :
                    /\ content[i] \notin Whitespace
                    /\ (i = 1 \/ content[i - 1] \in Whitespace)})

txt_error_processing ==
    <<"E", "r", "r", "o", "r", " ", "p", "r", "o", "c", "e", "s", "s", "i", "n", "g", " ",
      "d", "o", "c", "u", "m", "e", "n", "t", ":", " ">>
txt_file_not_found ==
    <<"F", "i", "l", "e", " ", "n", "o", "t", " ", "f", "o", "u", "n", "d", ":", " ">>

\* stat() without the test of exists()
DP_Checks_StatFirst(file) ==
    IF ~file.exists
    THEN Raised(Exc("FileNotFoundError", <<"[Errno 2] No such file or directory: ">> \o file.path))
    ELSE IF file.st_size > max_file_size
    THEN Raised(Exc("ValueError", <<"File too large: ", ToString(file.st_size), " bytes (max: ",
                                    ToString(max_file_size), ")">>))
    ELSE Returned(file.st_size)

\* the tests made before the file is read: the size of the file, or the
\* exception raised
DP_Checks(file) ==
    IF ~file.exists
    THEN Raised(Exc("FileNotFoundError", txt_file_not_found \o file.path))
    ELSE IF file.st_size > max_file_size
    THEN Raised(Exc("ValueError", <<"File too large: ", ToString(file.st_size), " bytes (max: ",
                                    ToString(max_file_size), ")">>))
    ELSE Returned(file.st_size)

\* the content by the extension of the file
DP_Content(file, env) ==
    LET file_extension == Lower(file.suffix)
    IN CASE file_extension = ext_pdf  -> DP_ProcessPdf(file, env)
         [] file_extension = ext_docx -> DP_ProcessDocx(file, env)
         [] file_extension \in {ext_txt, ext_md}   -> DP_ProcessText(file)
         [] file_extension \in {ext_html, ext_htm} -> DP_ProcessHtml(file, env)
         [] OTHER ->
               LET r == DP_ProcessText(file)
               IN IF ~r.ok /\ r.value.type = "UnicodeDecodeError"
                  THEN Raised(Exc("ValueError", <<"Unsupported file format: ">> \o file_extension))
                  ELSE r

\* the try block of process_document
DP_Try(file, env) ==
    LET checked == DP_Checks(file)
        content == DP_Content(file, env)
    IN IF ~checked.ok THEN checked
       ELSE IF ~content.ok THEN content
       ELSE Returned([filename   |-> file.name,
                      file_path  |-> file.path,
                      file_size  |-> checked.value,
                      file_type  |-> Lower(file.suffix),
                      mime_type  |-> MimeType(file.suffix),
                      content    |-> content.value,
                      word_count |-> WordCount(content.value),
                      char_count |-> Len(content.value),
                      success    |-> TRUE,
                      message    |-> <<"Successfully processed ">> \o file.name])

\* process_document: every Exception of the try block becomes a result
DP_ProcessDocument(file, env) ==
    LET done == DP_Try(file, env)
    IN IF done.ok THEN done
       ELSE Returned([filename   |-> file.name,
                      file_path  |-> file.path,
                      file_size  |-> 0,
                      file_type  |-> <<"unknown">>,
                      mime_type  |-> None,
                      content    |-> <<>>,
                      word_count |-> 0,
                      char_count |-> 0,
                      success    |-> FALSE,
                      message    |-> txt_error_processing \o done.value.text])

\* the files of the model: a path that does not exist, and files of every
\* extension and content
stem_data == <<"d", "a", "t", "a">>
File(suffix, exists, st_size, readable, bytes) ==
    [name |-> stem_data \o suffix, path |-> <<"docs/">> \o stem_data \o suffix,
     suffix |-> suffix, exists |-> exists, st_size |-> st_size, readable |-> readable,
     bytes |-> bytes]

\* the number of bytes of each byte string
ByteLength(bytes) ==
    CASE bytes = "text" -> 7
      [] bytes = "empty" -> 0
      [] bytes = "odd_binary" -> 1
      [] bytes = "even_binary" -> 8
      [] bytes = "utf16_bom" -> 4
      [] bytes = "pdf" -> 10
      [] bytes = "docx" -> 4
      [] OTHER -> 9

\* a file of each extension holding each byte string, and files of the
\* largest size allowed and one byte larger that start with it (an empty file
\* has no bytes)
Sizes(bytes) ==
    {ByteLength(bytes)} \cup (IF bytes = "empty" THEN {} ELSE {max_file_size, max_file_size + 1})
Files ==
    {File(suffix, FALSE, 0, FALSE, "empty") : suffix \in Suffixes}
    \cup UNION {UNION {{File(suffix, TRUE, st_size, readable, bytes) :
                           suffix \in Suffixes, readable \in BOOLEAN} :
                       st_size \in Sizes(bytes)} :
                bytes \in Bytes}

\* the libraries the build has
Environments == [PDF_AVAILABLE : BOOLEAN, DOCX_AVAILABLE : BOOLEAN, BS4_AVAILABLE : BOOLEAN]

DocInit ==
    /\ calls = [c \in Calls |-> IdleCall]
    /\ checkpoints = EmptyDict
    /\ probe \in {[NoProbe EXCEPT !.before = [file |-> file, env |-> env]] :
                     file \in Files, env \in Environments}
    /\ memory = <<>>
    /\ facade = NoFacadeCall
    /\ retry = NoRetry
    /\ manager = NoConnections

\* process_document applied to the file
ProbeDocumentProcessor ==
    /\ probe.op = ""
    /\ \E done \in {DP_ProcessDocument(probe.before.file, probe.before.env)} :
          probe' = [probe EXCEPT !.op = "DocumentProcessor.process_document",
                                 !.raised = ~done.ok,
                                 !.state = IF done.ok THEN done.value ELSE @]
    /\ UNCHANGED <<calls, checkpoints, memory, facade, retry, manager>>

DocNext == ProbeDocumentProcessor

DocSpec == DocInit /\ [][DocNext]_vars

\* ------------------------------------------------------------------ ChromeIntegration
\* integrations/chrome.py.  The result page of the search engine is the
\* sequence of its elements of class "g"; of an element, what the page holds
\* under h3, a and .VwiC3b, or that reading it fails.
MaxPage == 2

absent == <<"<absent>">>
el_full  == [h3 |-> <<"T">>, a |-> <<"U">>, VwiC3b |-> <<"D">>, stale |-> FALSE]
el_link  == [h3 |-> absent, a |-> <<"U">>, VwiC3b |-> absent, stale |-> FALSE]
el_bare  == [h3 |-> <<"V">>, a |-> absent, VwiC3b |-> absent, stale |-> FALSE]
el_stale == [h3 |-> <<"T">>, a |-> <<"U">>, VwiC3b |-> <<"D">>, stale |-> TRUE]
Elements == {el_full, el_link, el_bare, el_stale}
Pages == UNION {[1..n -> Elements] : n \in 0..MaxPage}

err_timeout == <<"Timeout 30000ms exceeded.">>
err_launch  == <<"Executable doesn't exist">>

\* the result the two searches make of an exception
ErrorDuringSearch(e) ==
    [title |-> <<"Search Error">>, url |-> <<>>,
     description |-> <<"Error during search: ">> \o e]

\* s[:n] of a Python list
Slice(s, n) ==
    IF n >= 0 THEN SubSeq(s, 1, IF n < Len(s) THEN n ELSE Len(s))
    ELSE SubSeq(s, 1, IF Len(s) + n > 0 THEN Len(s) + n ELSE 0)

\* the loop over the elements with Playwright: an element without h3, a or
\* description gets "No title", "" and ""; an element that cannot be read is
\* left out
ExtractPlaywright(elements) ==
    LET from[t \in Seq(Elements)] ==
            IF t = <<>> THEN <<>>
            ELSE (IF Head(t).stale THEN <<>>
                  ELSE <<[title |-> IF Head(t).h3 = absent THEN <<"No title">> ELSE Head(t).h3,
                          url |-> IF Head(t).a = absent THEN <<>> ELSE Head(t).a,
                          description |-> IF Head(t).VwiC3b = absent THEN <<>>
                                          ELSE Head(t).VwiC3b]>>)
                 \o from[Tail(t)]
    IN from[elements]

\* the loop over the elements with Selenium: find_element raises for an element
\* without h3 or a, which is then left out; a missing description is ""
ExtractSelenium(elements) ==
    LET from[t \in Seq(Elements)] ==
            IF t = <<>> THEN <<>>
            ELSE (IF Head(t).stale \/ Head(t).h3 = absent \/ Head(t).a = absent THEN <<>>
                  ELSE <<[title |-> Head(t).h3, url |-> Head(t).a,
                          description |-> IF Head(t).VwiC3b = absent THEN <<>>
                                          ELSE Head(t).VwiC3b]>>)
                 \o from[Tail(t)]
    IN from[elements]

\* the try block of a search: the browser starts or not, the wait for an
\* element of class "g" ends when there is one and times out when there is
\* none, then the first num_results elements are the ones read
SearchTry(page, num_results, launched) ==
    IF ~launched THEN Raised(err_launch)
    ELSE IF page = <<>> THEN Raised(err_timeout)
    ELSE Returned(Slice(page, num_results))

\* _search_with_playwright and _search_with_selenium: an exception of the try
\* block becomes the one result "Search Error"
SearchWithPlaywright(page, num_results, launched) ==
    LET done == SearchTry(page, num_results, launched)
    IN IF done.ok THEN Returned(ExtractPlaywright(done.value))
       ELSE Returned(<<ErrorDuringSearch(done.value)>>)

SearchWithSelenium(page, num_results, launched) ==
    LET done == SearchTry(page, num_results, launched)
    IN IF done.ok THEN Returned(ExtractSelenium(done.value))
       ELSE Returned(<<ErrorDuringSearch(done.value)>>)

\* search_web of the build, on the page the engine answers with
ChromeSearchWeb(backend, page, num_results, launched) ==
    SearchWeb(backend,
              IF backend = "selenium" THEN SearchWithSelenium(page, num_results, launched)
              ELSE SearchWithPlaywright(page, num_results, launched))

\* the limits search_web is called with: those of the agent, the default, one
\* and none
NumResults == {0, 1, 3, 5}

SearchInit ==
    /\ calls = [c \in Calls |-> IdleCall]
    /\ checkpoints = EmptyDict
    /\ probe \in {[NoProbe EXCEPT !.before = [backend |-> backend, page |-> page,
                                              num_results |-> num_results,
                                              launched |-> launched]] :
                     backend \in Backends, page \in Pages, num_results \in NumResults,
                     launched \in BOOLEAN}
    /\ memory = <<>>
    /\ facade = NoFacadeCall
    /\ retry = NoRetry
    /\ manager = NoConnections

\* search_web applied to the page
ProbeSearchWeb ==
    /\ probe.op = ""
    /\ \E done \in {ChromeSearchWeb(probe.before.backend, probe.before.page,
                                    probe.before.num_results, probe.before.launched)} :
          probe' = [probe EXCEPT !.op = "ChromeIntegration.search_web",
                                 !.raised = ~done.ok,
                                 !.state = IF done.ok THEN done.value ELSE @]
    /\ UNCHANGED <<calls, checkpoints, memory, facade, retry, manager>>

SearchNext == ProbeSearchWeb

SearchSpec == SearchInit /\ [][SearchNext]_vars

\* ------------------------------------------------------------------ async_retry
\* utils/__init__.py.  One call of a coroutine function decorated with
\* async_retry(max_retries, delay): the loop over the attempts, func awaited in
\* each, asyncio.sleep awaited between them.
Delays == {1, 2}
RetryResults == {<<"r1">>, <<"r2">>}

exc_value  == Exc("ValueError", <<"a">>)
exc_runtime == Exc("RuntimeError", <<"b">>)
exc_cancelled == Exc("CancelledError", <<>>)
\* raise None
exc_raise_none == Exc("TypeError", <<"exceptions must derive from BaseException">>)

\* what func does in one attempt
AttemptOutcomes ==
    {Returned(r) : r \in RetryResults} \cup {Raised(exc_value), Raised(exc_runtime),
                                             Raised(exc_cancelled)}

\* except Exception: CancelledError derives from BaseException only
IsException(e) == e.type # "CancelledError"

\* the wrapper entered: the first pass of the loop, or no pass at all and
\* raise last_exception with last_exception = None
RetryEnter(max_retries, delay) ==
    IF max_retries > 0
    THEN [NoRetry EXCEPT !.pc = "call", !.max_retries = max_retries, !.delay = delay]
    ELSE [NoRetry EXCEPT !.pc = "raised", !.max_retries = max_retries, !.delay = delay,
                         !.error = exc_raise_none]

\* the sleep also after the last attempt
RetryAttempt_SleepsAfterLast(r, outcome) ==
    LET tried == [r EXCEPT !.outcomes = Append(@, outcome)]
    IN IF outcome.ok THEN [tried EXCEPT !.pc = "returned", !.result = outcome.value]
       ELSE IF ~IsException(outcome.value)
       THEN [tried EXCEPT !.pc = "raised", !.error = outcome.value]
       ELSE [tried EXCEPT !.pc = "sleep", !.last_exception = outcome.value,
                          !.sleeps = Append(@, r.delay * 2^(r.attempt))]

\* one pass of the loop: func awaited; its result returned, or its exception
\* kept and, unless this was the last pass, the sleep started; after the last
\* pass last_exception is raised
RetryAttempt(r, outcome) ==
    LET tried == [r EXCEPT !.outcomes = Append(@, outcome)]
    IN IF outcome.ok THEN [tried EXCEPT !.pc = "returned", !.result = outcome.value]
       ELSE IF ~IsException(outcome.value)
       THEN [tried EXCEPT !.pc = "raised", !.error = outcome.value]
       ELSE IF r.attempt < r.max_retries - 1
       THEN [tried EXCEPT !.pc = "sleep", !.last_exception = outcome.value,
                          !.sleeps = Append(@, r.delay * 2^(r.attempt))]
       ELSE [tried EXCEPT !.pc = "raised", !.last_exception = outcome.value,
                          !.error = outcome.value]

\* asyncio.sleep returned: the next pass
RetryWake(r) == [r EXCEPT !.pc = "call", !.attempt = @ + 1]

CallWrapped(max_retries, delay) ==
    /\ retry.pc = "idle"
    /\ retry' = RetryEnter(max_retries, delay)
    /\ UNCHANGED <<calls, checkpoints, probe, memory, facade, manager>>

Attempt(outcome) ==
    /\ retry.pc = "call"
    /\ retry' = RetryAttempt(retry, outcome)
    /\ UNCHANGED <<calls, checkpoints, probe, memory, facade, manager>>

Wake ==
    /\ retry.pc = "sleep"
    /\ retry' = RetryWake(retry)
    /\ UNCHANGED <<calls, checkpoints, probe, memory, facade, manager>>

RetryNext ==
    \/ \E max_retries \in 0..MaxRetries, delay \in Delays : CallWrapped(max_retries, delay)
    \/ \E outcome \in AttemptOutcomes : Attempt(outcome)
    \/ Wake

RetrySpec == Init /\ [][RetryNext]_vars

\* ------------------------------------------------------------------ the web application
\* web/main.py: the ConnectionManager and the endpoint /ws.  Each connection
\* of a client is a websocket of its own, handled by one run of
\* websocket_endpoint; handler gives where that run is.
exc_disconnect == Exc("WebSocketDisconnect", <<"1000">>)
exc_send       == Exc("RuntimeError", <<"Cannot call \"send\" once a close message has been sent.">>)
exc_accept     == Exc("RuntimeError", <<"Expected ASGI message \"websocket.connect\"">>)
exc_json       == Exc("JSONDecodeError", <<"Expecting value: line 1 column 1 (char 0)">>)
exc_attribute  == Exc("AttributeError", <<"'list' object has no attribute 'get'">>)

\* the frames a client sends: a chat message, a chat message without text,
\* another object, a JSON list, a text that is no JSON, and the close of the
\* connection
frame_chat    == [type |-> "websocket.receive", text |-> <<"{\"type\": \"chat\", \"message\": \"hi\"}">>]
frame_empty   == [type |-> "websocket.receive", text |-> <<"{\"type\": \"chat\", \"message\": \"\"}">>]
frame_ping    == [type |-> "websocket.receive", text |-> <<"{\"type\": \"ping\"}">>]
frame_list    == [type |-> "websocket.receive", text |-> <<"[1]">>]
frame_text    == [type |-> "websocket.receive", text |-> <<"hi">>]
frame_close   == [type |-> "websocket.disconnect", text |-> <<>>]
Frames == {frame_chat, frame_empty, frame_ping, frame_list, frame_text, frame_close}

\* json.loads of the texts above; a dict is a record with is_dict TRUE
JsonLoads(text) ==
    CASE text = frame_chat.text  ->
            Returned([is_dict |-> TRUE, type |-> <<"chat">>, message |-> <<"h", "i">>])
      [] text = frame_empty.text ->
            Returned([is_dict |-> TRUE, type |-> <<"chat">>, message |-> <<>>])
      [] text = frame_ping.text  ->
            Returned([is_dict |-> TRUE, type |-> <<"ping">>, message |-> <<>>])
      [] text = frame_list.text  -> Returned([is_dict |-> FALSE])
      [] OTHER -> Raised(exc_json)

\* websocket.receive_json()
ReceiveJson(frame) ==
    IF frame.type = "websocket.disconnect" THEN Raised(exc_disconnect)
    ELSE JsonLoads(frame.text)

\* list.remove(x): the first occurrence is removed
Remove(list, x) ==
    LET at == CHOOSE i \in 1..Len(list) : list[i] = x /\ \A j \in 1..(i - 1) : list[j] # x
    IN SubSeq(list, 1, at - 1) \o SubSeq(list, at + 1, Len(list))

\* ConnectionManager.connect
Connect(m, websocket, accepted) ==
    IF accepted
    THEN Returned([m EXCEPT !.active_connections = Append(@, websocket)])
    ELSE Raised(exc_accept)

\* ConnectionManager.disconnect
Disconnect(m, websocket) ==
    IF \E i \in 1..Len(m.active_connections) : m.active_connections[i] = websocket
    THEN Returned([m EXCEPT !.active_connections = Remove(@, websocket)])
    ELSE Raised(Exc("ValueError", <<"list.remove(x): x not in list">>))

Live == {"receiving", "chatting"}

\* ConnectionManager.broadcast: send_text on each connection in turn; it
\* raises on a connection that is closed, which ends the loop.  sent gets the
\* connections send_text was called on, each with the position of its handler.
Broadcast(m) ==
    LET closed(i) == m.handler[m.active_connections[i]] \notin Live
        upto == IF \E i \in 1..Len(m.active_connections) : closed(i)
                THEN CHOOSE i \in 1..Len(m.active_connections) :
                        closed(i) /\ \A j \in 1..(i - 1) : ~closed(j)
                ELSE Len(m.active_connections)
    IN [m EXCEPT !.sent = [i \in 1..upto |->
                              [websocket |-> m.active_connections[i],
                               handler |-> m.handler[m.active_connections[i]]]]]

\* websocket_endpoint left with the exception: only WebSocketDisconnect is
\* handled, by manager.disconnect
Leave(m, websocket, e) ==
    IF e.type = "WebSocketDisconnect"
    THEN LET done == Disconnect(m, websocket)
         IN [(IF done.ok THEN done.value ELSE m) EXCEPT !.handler[websocket] = "disconnected"]
    ELSE [m EXCEPT !.handler[websocket] = "failed"]

\* websocket_endpoint up to the first receive_json
EndpointConnect(websocket, accepted) ==
    /\ manager.handler[websocket] = "new"
    /\ \E done \in {Connect(manager, websocket, accepted)} :
          manager' = IF done.ok THEN [done.value EXCEPT !.handler[websocket] = "receiving"]
                     ELSE [manager EXCEPT !.handler[websocket] = "refused"]
    /\ UNCHANGED <<calls, checkpoints, probe, memory, facade, retry>>

\* receive_json returns or raises; the loop goes on to agent.chat for a chat
\* message with a text, and to the next receive_json for another object
EndpointReceive(websocket, frame) ==
    /\ manager.handler[websocket] = "receiving"
    /\ \E data \in {ReceiveJson(frame)} :
          manager' = IF ~data.ok THEN Leave(manager, websocket, data.value)
                     ELSE IF ~data.value.is_dict THEN Leave(manager, websocket, exc_attribute)
                     ELSE IF data.value.type = <<"chat">> /\ data.value.message # <<>>
                          THEN [manager EXCEPT !.handler[websocket] = "chatting"]
                          ELSE manager
    /\ manager' # manager
    /\ UNCHANGED <<calls, checkpoints, probe, memory, facade, retry>>

\* what a send_text does
SendOutcomes == {Returned(None), Raised(exc_disconnect), Raised(exc_send)}

\* agent.chat returned or raised, the reply is sent; when either raises, the
\* error message is sent, outside any try block but that of the endpoint
EndpointReply(websocket, chatted, sent_reply, sent_error) ==
    /\ manager.handler[websocket] = "chatting"
    /\ manager' = IF chatted.ok /\ sent_reply.ok
                  THEN [manager EXCEPT !.handler[websocket] = "receiving"]
                  ELSE IF sent_error.ok
                  THEN [manager EXCEPT !.handler[websocket] = "receiving"]
                  ELSE Leave(manager, websocket, sent_error.value)
    /\ UNCHANGED <<calls, checkpoints, probe, memory, facade, retry>>

\* a broadcast to the connections
CallBroadcast ==
    /\ manager' = Broadcast(manager)
    /\ manager' # manager
    /\ UNCHANGED <<calls, checkpoints, probe, memory, facade, retry>>

WebNext ==
    \/ \E websocket \in WebSockets, accepted \in BOOLEAN : EndpointConnect(websocket, accepted)
    \/ \E websocket \in WebSockets, frame \in Frames : EndpointReceive(websocket, frame)
    \/ \E websocket \in WebSockets, chatted \in {Returned(reply_ok), Raised(err_model)},
          sent_reply \in SendOutcomes, sent_error \in SendOutcomes :
          EndpointReply(websocket, chatted, sent_reply, sent_error)
    \/ CallBroadcast

WebSpec == Init /\ [][WebNext]_vars

\* ------------------------------------------------------------------ properties
Started(c) == Node(c) # "idle"
Finished(c) == Node(c) = "returned"
\* the run of the call went through the graph to END
Completed(c) == Finished(c) /\ ~calls[c].caught

\* the text has one of the words in it
HasAny(text, words) ==
    \E w \in words : \E i \in 1..Len(text) :
        /\ i + Len(w) - 1 <= Len(text)
        /\ \A j \in 1..Len(w) : text[i + j - 1] = w[j]

\* C1: the router returns one of documents, web_research, chat, decided by the
\* lowercased text of the last message alone: documents when it has a document
\* keyword, else web_research when it has a research keyword, else chat.
C1_RouterPrecedence ==
    probe.op = "route_request" =>
        LET h    == probe.state.messages
            text == IF h = <<>> THEN <<>> ELSE Lower(h[Len(h)].content)
            doc  == HasAny(text, {kw_document, kw_file, kw_upload})
            res  == HasAny(text, {kw_search, kw_research, kw_browse, kw_web})
        IN /\ probe.route \in {"documents", "web_research", "chat"}
           /\ (probe.route = "documents") <=> doc
           /\ (probe.route = "web_research") <=> (~doc /\ res)
           /\ (probe.route = "chat") <=> (~doc /\ ~res)

\* a message with a document keyword and a research keyword, after an earlier
\* message that routes elsewhere on its own, is routed to documents
C1_Witness ==
    /\ probe.op = "route_request"
    /\ Len(probe.state.messages) = 2
    /\ probe.state.messages[1].content = msg_webinar
    /\ probe.state.messages[2].content = msg_both
    /\ probe.route = "documents"

\* the nodes of the path the router's result selects
SelectedPath(route) ==
    CASE route = "documents"    -> <<"process_input", "handle_documents", "generate_response">>
      [] route = "web_research" -> <<"process_input", "web_research", "generate_response">>
      [] route = "chat"         -> <<"process_input", "generate_response">>

\* C2: in every run the nodes executed are those of the one path the router's
\* result selects, in order: the node about to run is the next of that path,
\* and a run that went to END executed the whole path and nothing else.
C2_OneEdgeSelected ==
    \A c \in Calls : Started(c) =>
        LET trace == calls[c].trace IN
        IF calls[c].route = ""
        THEN /\ trace = <<>>
             /\ Node(c) = "process_input" \/ calls[c].caught
        ELSE LET path == SelectedPath(calls[c].route) IN
             /\ Len(trace) <= Len(path)
             /\ \A i \in 1..Len(trace) : trace[i] = path[i]
             /\ Node(c) \in NodeNames => /\ Len(trace) < Len(path)
                                         /\ Node(c) = path[Len(trace) + 1]
             /\ Completed(c) => trace = path

\* a run routed to documents and a run routed to web_research both at END
C2_Witness ==
    \E c, d \in Calls :
        /\ Completed(c) /\ calls[c].route = "documents"
        /\ calls[c].trace = <<"process_input", "handle_documents", "generate_response">>
        /\ Completed(d) /\ calls[d].route = "web_research"
        /\ calls[d].trace = <<"process_input", "web_research", "generate_response">>

\* C3: every run that was started reaches generate_response and then END,
\* whether the search capability and the language model return or raise; no run
\* ends in chat's except clause, and no run comes back to process_input.
C3_AlwaysReachesEnd ==
    /\ \A c \in Calls :
          Started(c) ~> (/\ Completed(c)
                         /\ calls[c].trace[Len(calls[c].trace)] = "generate_response")
    /\ [](\A c \in Calls : ~calls[c].caught)
    /\ [][\A c \in Calls :
            Node(c) \notin {"idle", "process_input"} => calls'[c].pc # "process_input"]_vars

\* a run at END in which both the search and the language model raised
C3_Witness ==
    \E c \in Calls :
        /\ Completed(c)
        /\ calls[c].trace = <<"process_input", "web_research", "generate_response">>
        /\ calls[c].state.web_content = <<"Web research encountered an error: ">> \o err_search
        /\ ~calls[c].llm_out.ok

\* the content of the message generate_response appends for an outcome of the model
ReplyFor(outcome) ==
    IF outcome.ok THEN outcome.value
    ELSE <<"I apologize, but I encountered an error: ">> \o outcome.value

\* C4: generate_response appends exactly one assistant message, the model's
\* reply or an error text, and leaves the messages before it as they were.
C4_AppendsOneAssistantMessage ==
    probe.op = "generate_response" =>
        LET old == probe.before.messages
            new == probe.state.messages
        IN /\ Len(new) = Len(old) + 1
           /\ \A i \in 1..Len(old) : new[i] = old[i]
           /\ new[Len(new)] = [type |-> "ai", content |-> ReplyFor(probe.outcome)]

\* the model raised on a history that already had two messages
C4_Witness ==
    /\ probe.op = "generate_response"
    /\ ~probe.outcome.ok
    /\ Len(probe.before.messages) = 2
    /\ Len(probe.state.messages) = 3

\* C5 as amended: chat never raises and returns a string; when its except clause
\* ran the string is the error text; chat("hello") on a fresh thread returns the
\* empty string only when the language model's reply is the empty string.
C5_NeverRaises ==
    \A c \in Calls : Finished(c) =>
        /\ ~calls[c].raised
        /\ calls[c].result # None
        /\ calls[c].caught => calls[c].result = <<"I encountered an error: ">> \o err_engine
        /\ (calls[c].message = msg_hello /\ calls[c].prior = EmptyDict /\ calls[c].result = <<>>)
              => (~calls[c].caught /\ calls[c].llm_out = Returned(reply_empty))

\* one call ended in chat's except clause and returned the error text; another,
\* chat("hello") on a fresh thread, returned the model's empty reply
C5_Witness ==
    \E c, d \in Calls :
        /\ Finished(c) /\ calls[c].caught
        /\ calls[c].result = <<"I encountered an error: ">> \o err_engine
        /\ Completed(d) /\ calls[d].message = msg_hello /\ calls[d].prior = EmptyDict
        /\ calls[d].result = <<>>

\* C5 as stated: chat never raises, returns a string, and chat("hello") on a
\* fresh thread returns a non-empty string.
C5_Original ==
    \A c \in Calls : Finished(c) =>
        /\ ~calls[c].raised
        /\ calls[c].result # None
        /\ (calls[c].message = msg_hello /\ calls[c].prior = EmptyDict)
              => calls[c].result # <<>>

\* C6: chat returns the content of the last assistant message of the result,
\* which is the one the run's generate_response appended, and the fallback
\* string when the result has no assistant message.
C6_LastAssistantMessage ==
    LET h  == probe.state.messages
        ai == {i \in 1..Len(h) : h[i].type = "ai"}
    IN /\ probe.op = "extract_reply" =>
             IF ai = {} THEN probe.reply = <<"I'm sorry, I couldn't generate a response.">>
             ELSE \E i \in ai : /\ \A j \in ai : j <= i
                                /\ probe.reply = h[i].content
       /\ probe.op = "generate_response" =>
             /\ probe.reply = ReplyFor(probe.outcome)
             /\ probe.reply = h[Len(h)].content

\* the reply is that of this run although an earlier assistant message with
\* another content is in the result
C6_Witness ==
    /\ probe.op = "generate_response"
    /\ probe.before.messages = <<AIMessage(msg_webinar), HumanMessage(msg_hello)>>
    /\ probe.reply = reply_ok

\* the thread of the call had the checkpoint of a turn that went to END when
\* the call was made
Resumed(c) ==
    /\ Started(c)
    /\ "messages" \in DOMAIN calls[c].prior
    /\ \E i \in 1..Len(calls[c].prior.messages) : calls[c].prior.messages[i].type = "ai"

\* C7: a chat on a thread that has the checkpoint of a completed turn works on a
\* state that reflects that turn: the state the run starts from is not the one
\* it would start from on a fresh thread.
C7_ResumesFromCheckpoint ==
    \A c \in Calls :
        (Resumed(c) /\ Node(c) = "process_input") =>
            calls[c].state # InitialState(calls[c].message)

\* C8: a run on one thread, whatever another call does on another thread,
\* holds its own user message and the reply generated for it and nothing else,
\* its caller gets that reply, and it uses no checkpoint key but its thread's.
C8_ThreadIsolation ==
    \A c, d \in Calls :
        (Started(c) /\ Started(d) /\ calls[c].thread # calls[d].thread) =>
            LET own == <<[type |-> "human", content |-> calls[c].message]>>
                gen == [type |-> "ai", content |-> ReplyFor(calls[c].llm_out)]
                responded == \E i \in 1..Len(calls[c].trace) :
                                 calls[c].trace[i] = "generate_response"
            IN /\ calls[c].state.messages = IF responded THEN own \o <<gen>> ELSE own
               /\ Completed(c) => calls[c].result = ReplyFor(calls[c].llm_out)
               /\ calls[c].keys = {calls[c].thread}
               /\ calls[d].thread \notin calls[c].keys

\* the second call, on another thread and with another message, went to END
\* while the first call was waiting for the language model
C8_Witness ==
    /\ Node(1) = "generate_response" /\ Completed(2)
    /\ calls[1].thread # calls[2].thread
    /\ calls[1].message # calls[2].message
    /\ calls[2].result = reply_ok

\* the calls made on the thread
CallsOn(t) == {c \in Calls : Started(c) /\ calls[c].thread = t}

\* C9: once the calls on a thread have all returned, the thread's checkpoint is
\* the whole final state of one of their runs, and each caller whose run went to
\* END got the reply generated for its own message.
C9_LastWriteWins ==
    \A t \in ThreadIds :
        (CallsOn(t) # {} /\ \A c \in CallsOn(t) : Finished(c)) =>
            /\ t \in DOMAIN checkpoints
            /\ \E c \in CallsOn(t) : checkpoints[t] = calls[c].state
            /\ \A c \in CallsOn(t) :
                  Completed(c) => calls[c].result = ReplyFor(calls[c].llm_out)

\* two runs on one thread with different final states; the call made first
\* wrote last
C9_Witness ==
    /\ Completed(1) /\ Completed(2)
    /\ calls[1].thread = calls[2].thread
    /\ calls[1].state.web_content # None
    /\ calls[2].state.web_content = None
    /\ checkpoints[calls[1].thread] = calls[1].state

\* C10: the query handed to the search capability is the latest message with
\* every occurrence of "research" and of "search" removed, trimmed; for
\* "I love researching" it is "I love ing".
C10_QueryStripped ==
    \A c \in Calls :
        calls[c].searched > 0 =>
            /\ calls[c].query = Strip(Replace(Replace(calls[c].message, kw_research), kw_search))
            /\ calls[c].message = msg_love =>
                  calls[c].query = <<"I"," ","l","o","v","e"," ","i","n","g">>

\* the parts occur in the text one after the other, in the order given
InOrder(text, parts) ==
    LET after[k \in 0..Len(parts)] ==
            \* the least position of the text after the first k parts; 0 if there is none
            IF k = 0 THEN 1
            ELSE IF after[k - 1] = 0 THEN 0
                 ELSE LET part == parts[k]
                          at == {i \in after[k - 1]..(Len(text) - Len(part) + 1) :
                                    \A j \in 1..Len(part) : text[i + j - 1] = part[j]}
                      IN IF at = {} THEN 0
                         ELSE (CHOOSE i \in at : \A x \in at : i <= x) + Len(part)
    IN after[Len(parts)] # 0

\* number, title, url and description of each result, in the order of the results
Listed(results) ==
    LET part[k \in 1..(4 * Len(results))] ==
            LET result == results[(k + 3) \div 4] IN
            CASE k % 4 = 1 -> <<ToString((k + 3) \div 4)>>
              [] k % 4 = 2 -> result.title
              [] k % 4 = 3 -> result.url
              [] k % 4 = 0 -> result.description
    IN part

WellFormed(results) ==
    \A i \in 1..Len(results) : {"title", "url", "description"} \subseteq DOMAIN results[i]

\* C11: web_research, executed in a run (on a history that is not empty), calls
\* the search capability exactly once, with limit 3, and does not raise; when
\* the search returns results that can be formatted, web_content is the list of
\* the results numbered from 1 in the order returned; when the search or the
\* formatting raises, web_content is an error text; nothing but web_content is
\* changed.
C11_SearchOnceThenListOrError ==
    (probe.op = "web_research" /\ probe.before.messages # <<>>) =>
        LET outcome == probe.outcome
            content == probe.state.web_content
        IN /\ ~probe.raised
           /\ Len(probe.ports) = 1
           /\ probe.ports[1].port = "search_web"
           /\ probe.ports[1].args.num_results = 3
           /\ \A k \in StateKeys \ {"web_content"} : probe.state[k] = probe.before[k]
           /\ (outcome.ok /\ WellFormed(outcome.value)) =>
                 /\ Head(content) = "Web search results:\n\n"
                 /\ InOrder(Tail(content), Listed(outcome.value))
                 /\ Cardinality({i \in 1..Len(content) : content[i] = "   URL: "})
                       = Len(outcome.value)
           /\ ~outcome.ok =>
                 content = <<"Web research encountered an error: ">> \o outcome.value
           /\ (outcome.ok /\ ~WellFormed(outcome.value)) =>
                 /\ Head(content) = "Web research encountered an error: "
                 /\ Len(content) = 2

\* the second of two results lacks its title: the node returned with the error
\* text in web_content and the two messages of the history as they were
C11_Witness ==
    /\ probe.op = "web_research"
    /\ probe.outcome = Returned(<<res_V, res_bad>>)
    /\ Len(probe.before.messages) = 2
    /\ probe.state.messages = probe.before.messages
    /\ probe.state.web_content = <<"Web research encountered an error: ", "KeyError">>
    /\ ~probe.raised

\* C12: handle_documents sets context.document_processed to true and changes
\* nothing else, does not raise and calls no capability; no node of the
\* workflow calls the document capability.
C12_HandleDocumentsOnlyMarks ==
    /\ probe.op = "handle_documents" =>
          /\ ~probe.raised
          /\ probe.ports = <<>>
          /\ \A k \in StateKeys \ {"context"} : probe.state[k] = probe.before[k]
          /\ DOMAIN probe.state.context = DOMAIN probe.before.context \cup {"document_processed"}
          /\ probe.state.context["document_processed"] = TRUE
          /\ \A k \in DOMAIN probe.before.context \ {"document_processed"} :
                probe.state.context[k] = probe.before.context[k]
    /\ \A i \in 1..Len(probe.ports) : probe.ports[i].port # "process_document"

\* the node was executed on a history whose last message asks for a file
C12_Witness ==
    /\ probe.op = "handle_documents"
    /\ Len(probe.before.messages) = 2
    /\ probe.before.messages[2].content = msg_both
    /\ "document_processed" \notin DOMAIN probe.before.context
    /\ probe.state.context["document_processed"] = TRUE
    /\ probe.state.documents = <<>>

\* a process_document or web_search call has just been made
Called(op) == facade.op = op

\* C13: a process_document or web_search call changes no chat call (it runs no
\* node and calls no language model), no checkpoint of any thread and not the
\* memory; it calls its own capability, once, and nothing else; and a chat call
\* with such calls before, during and after its run holds its own user message
\* and, once generated, the reply to it, and nothing else.
C13_FacadeOutsideGraph ==
    /\ [][facade' # facade =>
             /\ calls' = calls
             /\ checkpoints' = checkpoints
             /\ memory' = memory]_vars
    /\ [](Called("process_document") =>
             /\ Len(facade.ports) = 1
             /\ facade.ports[1].port = "process_document")
    /\ [](Called("web_search") =>
             /\ Len(facade.ports) = 1
             /\ facade.ports[1].port = "search_web")
    /\ [](Started(1) =>
             LET own == <<[type |-> "human", content |-> calls[1].message]>>
                 gen == [type |-> "ai", content |-> ReplyFor(calls[1].llm_out)]
             IN calls[1].state.messages =
                    IF Completed(1) THEN own \o <<gen>> ELSE own)

\* a document was processed while the chat call was waiting for the language
\* model, after the checkpoints of its thread had been written; the chat call
\* then returned the model's reply
C13_Witness ==
    /\ Called("process_document")
    /\ facade.outcome = Returned(doc_ok)
    /\ facade.at[1] = "generate_response"
    /\ Completed(1)
    /\ calls[1].result = reply_ok
    /\ checkpoints[calls[1].thread] = calls[1].state

\* C14: process_document does not raise.  For a result with success true it
\* returns "Successfully processed '<filename>'. Content: <word_count> words,
\* <char_count> characters." followed by a fixed sentence; for a result with
\* success false it returns the result's message; when the capability raises, or
\* the result lacks a key that is read, it returns an error text.
C14_ProcessDocumentReply ==
    Called("process_document") =>
        LET outcome == facade.outcome
            result == outcome.value
            reply == facade.result
            complete == {"success", "filename", "word_count", "char_count", "message"}
                           \subseteq DOMAIN result
        IN /\ ~facade.raised
           /\ reply # None
           /\ (outcome.ok /\ complete /\ result.success) =>
                 LET start == <<"Successfully processed '">> \o result.filename
                              \o <<"'. ", "Content: ", ToString(result.word_count), " words, ",
                                   ToString(result.char_count), " characters.">>
                 IN /\ Len(reply) > Len(start)
                    /\ SubSeq(reply, 1, Len(start)) = start
           /\ (outcome.ok /\ complete /\ ~result.success) => reply = result.message
           /\ ~outcome.ok => reply = <<"Error processing document: ">> \o outcome.value
           /\ (outcome.ok /\ ~complete) => Head(reply) = "Error processing document: "

\* the capability reported a file it could not process, while a chat call was running
C14_Witness ==
    /\ Called("process_document")
    /\ facade.outcome = Returned(doc_failed)
    /\ facade.result = <<"Error processing document: File not found: report.txt">>
    /\ facade.at[1] = "process_input"

\* C15: web_search calls the search capability once, with limit 5, and does not
\* raise; when the query is the empty string, or the search returns no result,
\* it returns "No search results found.".
C15_NoResultsString ==
    Called("web_search") =>
        /\ ~facade.raised
        /\ Len(facade.ports) = 1
        /\ facade.ports[1].args.num_results = 5
        /\ (facade.arg = <<>> \/ facade.outcome = Returned(<<>>)) =>
              facade.result = <<"No search results found.">>

\* C16: for results that can be formatted, web_search returns a text in which
\* the results are numbered from 1 in the order returned, each with its title,
\* then its url, then its description.
C16_ResultsInOrder ==
    (Called("web_search") /\ facade.outcome.ok) =>
        LET results == facade.outcome.value IN
        IF results = <<>> \/ ~WellFormed(results) THEN TRUE
        ELSE
            /\ InOrder(facade.result, Listed(results))
            /\ Cardinality({i \in 1..Len(facade.result) : facade.result[i] = "   URL: "})
                  = Len(results)
            /\ (results = <<res_T>>) =>
                  InOrder(facade.result, << <<"T">>, <<"U">>, <<"D">> >>)

\* two results, the first with all three fields
C16_Witness ==
    /\ Called("web_search")
    /\ facade.arg = query_q
    /\ facade.outcome = Returned(<<res_T, res_V>>)
    /\ facade.result = <<"Web search results for '", "q", "':\n\n",
                         "1", ". **", "T", "**\n", "   URL: ", "U", "\n",
                         "   Description: ", "D", "\n", "\n",
                         "2", ". **", "V", "**\n", "   URL: ", "\n", "\n">>

C18_ResetIdempotent ==
    \A thread_id \in ThreadIds :
        LET once  == ResetConversation(Agent, thread_id)
            twice == ResetConversation(once.agent, thread_id)
        IN /\ ~once.raised
           /\ ~twice.raised
           /\ twice.agent = once.agent
           /\ Called("reset_conversation") => once.agent = Agent

\* a reset has been made on a thread that has the checkpoint of a completed turn
C18_Witness ==
    /\ Called("reset_conversation")
    /\ facade.arg = "default"
    /\ facade.at[1] = "returned"
    /\ "default" \in DOMAIN checkpoints
    /\ Len(checkpoints["default"].messages) = 2

\* C19: process_input does not raise and calls no capability; it leaves the
\* messages and every other key but current_task as they were, and sets
\* current_task to the content of the last message; on an empty history it
\* changes nothing.
C19_ProcessInputOnlySetsTask ==
    probe.op = "process_input" =>
        LET old == probe.before.messages IN
        /\ ~probe.raised
        /\ probe.ports = <<>>
        /\ \A k \in StateKeys \ {"current_task"} : probe.state[k] = probe.before[k]
        /\ probe.state.current_task =
              IF old = <<>> THEN probe.before.current_task ELSE old[Len(old)].content
        /\ old = <<>> => probe.state = probe.before

\* a history of two messages with different contents
C19_Witness ==
    /\ probe.op = "process_input"
    /\ probe.before.messages = <<AIMessage(msg_webinar), HumanMessage(msg_love)>>
    /\ probe.state.messages = probe.before.messages
    /\ probe.state.current_task = msg_love

\* C20: from the start of a run on, and so after process_input, at the router
\* and at every later node, messages is not empty: its first message is the
\* user message of the call.
C20_MessagesNeverEmpty ==
    \A c \in Calls : Started(c) =>
        /\ calls[c].state.messages # <<>>
        /\ calls[c].state.messages[1] = [type |-> "human", content |-> calls[c].message]
        /\ calls[c].trace # <<>> => calls[c].state.current_task = calls[c].message

\* a run past process_input, on a thread that had a checkpoint, about to
\* execute the research node
C20_Witness ==
    \E c \in Calls :
        /\ Node(c) = "web_research"
        /\ calls[c].trace = <<"process_input">>
        /\ calls[c].prior # EmptyDict
        /\ Len(calls[c].state.messages) = 1

\* the first sequence is the beginning of the second
IsPrefix(s, t) == Len(s) <= Len(t) /\ \A i \in 1..Len(s) : t[i] = s[i]

\* C21: every node returns messages that begin with the messages it was given,
\* each as it was and where it was; a message equal to an earlier one is kept
\* beside it.
C21_MessagesAppendOnly ==
    probe.op \in {"process_input", "handle_documents", "web_research", "generate_response"} =>
        /\ IsPrefix(probe.before.messages, probe.state.messages)
        /\ probe.op # "generate_response" => probe.state.messages = probe.before.messages
        /\ probe.op = "generate_response" =>
              Len(probe.state.messages) = Len(probe.before.messages) + 1

\* the model's reply is equal to the assistant message the history ends with:
\* both are in the messages returned
C21_Witness ==
    /\ probe.op = "generate_response"
    /\ probe.before.messages = <<HumanMessage(msg_hello), AIMessage(msg_empty)>>
    /\ probe.outcome = Returned(reply_empty)
    /\ Len(probe.state.messages) = 3
    /\ probe.state.messages[3] = probe.state.messages[2]

\* C22: a run executes its nodes one after the other: process_input first, at
\* most one of handle_documents and web_research next, generate_response last;
\* no node twice, never more than three nodes, and nothing after
\* generate_response.
C22_AtMostThreeNodes ==
    \A c \in Calls :
        LET t == calls[c].trace IN
        /\ Len(t) <= 3
        /\ \A i, j \in 1..Len(t) : i # j => t[i] # t[j]
        /\ t # <<>> => t[1] = "process_input"
        /\ \A i \in 1..Len(t) :
              /\ t[i] = "generate_response" => (i = Len(t) /\ Finished(c))
              /\ t[i] \in {"handle_documents", "web_research"} => i = 2
        /\ Completed(c) => (Len(t) \in {2, 3} /\ t[Len(t)] = "generate_response")
        /\ (Started(c) /\ t = <<>>) => (Node(c) = "process_input" \/ calls[c].caught)

\* a run of three nodes at END while the other call, on the same thread, has
\* executed one node
C22_Witness ==
    \E c, d \in Calls :
        /\ Completed(c) /\ Len(calls[c].trace) = 3
        /\ Node(d) \in NodeNames /\ Len(calls[d].trace) = 1
        /\ calls[c].thread = calls[d].thread

\* C23: two runs made with the same message, to which the search capability
\* and the language model answered the same, executed the same nodes and ended
\* in the same state, with the same reply, on whatever threads they were made
\* and whatever the threads held before.
C23_Deterministic ==
    \A c, d \in Calls :
        (/\ Completed(c) /\ Completed(d)
         /\ calls[c].message = calls[d].message
         /\ calls[c].search_out = calls[d].search_out
         /\ calls[c].llm_out = calls[d].llm_out) =>
            /\ calls[c].trace = calls[d].trace
            /\ calls[c].route = calls[d].route
            /\ calls[c].state = calls[d].state
            /\ calls[c].result = calls[d].result

\* the second run was made on the thread of the first, after its turn
C23_Witness ==
    /\ Completed(1) /\ Completed(2)
    /\ calls[1].message = msg_love /\ calls[2].message = msg_love
    /\ calls[1].thread = calls[2].thread
    /\ Resumed(2)
    /\ calls[1].search_out = calls[2].search_out
    /\ calls[1].llm_out = calls[2].llm_out
    /\ calls[1].state = calls[2].state

\* C27: every run starts from the state chat builds, whatever the thread's
\* checkpoint holds: one user message, no task, empty context and documents, no
\* web content.  A run that went to END holds two messages, its user message
\* and one assistant message; it has web content only when it executed
\* web_research and a context entry only when it executed handle_documents.
C27_FreshStateEachCall ==
    \A c \in Calls : Started(c) =>
        LET state == calls[c].state
            ran(node) == \E i \in 1..Len(calls[c].trace) : calls[c].trace[i] = node
        IN /\ DOMAIN state = {"messages", "current_task", "context", "documents", "web_content"}
           /\ calls[c].trace = <<>> =>
                 state = [messages     |-> <<[type |-> "human", content |-> calls[c].message]>>,
                          current_task |-> <<"<None>">>,
                          context      |-> << >>,
                          documents    |-> <<>>,
                          web_content  |-> <<"<None>">>]
           /\ Completed(c) =>
                 /\ Len(state.messages) = 2
                 /\ state.messages[1] = [type |-> "human", content |-> calls[c].message]
                 /\ state.messages[2].type = "ai"
           /\ ~ran("web_research") => state.web_content = <<"<None>">>
           /\ ~ran("handle_documents") => DOMAIN state.context = {}

\* a turn with web content on the thread, then a chat that takes the chat route
\* on the same thread: it went to END without web content
C27_Witness ==
    /\ Completed(1) /\ Completed(2)
    /\ calls[1].thread = calls[2].thread
    /\ calls[2].prior = calls[1].state
    /\ calls[2].prior.web_content # None
    /\ calls[2].message = msg_hello
    /\ calls[2].state.web_content = None
    /\ Len(calls[2].state.messages) = 2

\* the text has the two fragments one after the other
Adjacent(text, a, b) == \E i \in 1..(Len(text) - 1) : text[i] = a /\ text[i + 1] = b

\* C28: documents is empty in the state of every run and in every checkpoint,
\* whatever documents were processed before or during the run; the system
\* message handed to the language model renders it as "[]", although the reply
\* of a successful process_document says the content is available.
C28_DocumentsAlwaysEmpty ==
    /\ \A c \in Calls : Started(c) =>
          /\ calls[c].state.documents = <<>>
          /\ calls[c].llm_in # <<>> =>
                /\ calls[c].llm_in[1].type = "system"
                /\ Adjacent(calls[c].llm_in[1].content, "[", "]")
    /\ \A t \in DOMAIN checkpoints : checkpoints[t].documents = <<>>
    /\ (Called("process_document") /\ facade.outcome = Returned(doc_ok)) =>
          /\ Last(facade.result) = " The document content is now available for our conversation."
          /\ facade.ports = <<PortCall("process_document", [file_path |-> facade.arg])>>

\* a document was processed with success before the chat call was made; the
\* chat call then went through handle_documents to the language model
C28_Witness ==
    /\ Called("process_document")
    /\ facade.outcome = Returned(doc_ok)
    /\ facade.at[1] = "idle"
    /\ Completed(1)
    /\ calls[1].trace = <<"process_input", "handle_documents", "generate_response">>
    /\ Adjacent(calls[1].llm_in[1].content, "[", "]")
    /\ calls[1].state.documents = <<>>

\* process_document was applied to a file
Processed == probe.op = "DocumentProcessor.process_document"

\* C24: process_document on a path that does not exist does not raise; it
\* returns a result with success false, a message that has "not found" in its
\* lower-case form, empty content, word_count 0 and char_count 0.
C24_MissingFile ==
    (Processed /\ ~probe.before.file.exists) =>
        /\ ~probe.raised
        /\ probe.state.success = FALSE
        /\ Contains(Lower(probe.state.message), <<"n", "o", "t", " ", "f", "o", "u", "n", "d">>)
        /\ probe.state.content = <<>>
        /\ probe.state.word_count = 0
        /\ probe.state.char_count = 0

\* the path of a text file that does not exist
C24_Witness ==
    /\ Processed
    /\ ~probe.before.file.exists
    /\ probe.before.file.suffix = ext_txt
    /\ probe.state.message = txt_error_processing \o txt_file_not_found
                             \o <<"docs/">> \o stem_data \o ext_txt
    /\ probe.state.success = FALSE

\* the file cannot be read as text: not as UTF-8, and not as UTF-16 with a byte
\* order mark
NotText(file) == ~Decode(file.bytes, "utf-8").ok /\ file.bytes # "utf16_bom"

SupportedExtensions == {ext_pdf, ext_docx, ext_txt, ext_md, ext_html, ext_htm}

\* C25: for a file larger than max_file_size, and for a file whose extension is
\* none of pdf, docx, txt, md, html, htm and whose bytes are not text,
\* process_document returns success false with a message, empty content and
\* counts 0, and does not raise; success true is returned only for a file that
\* exists, is within the size limit and is of a supported format.
C25_FailsClosed ==
    Processed =>
        LET file == probe.before.file
            unsupported == Lower(file.suffix) \notin SupportedExtensions /\ NotText(file)
        IN /\ ~probe.raised
           /\ (file.exists /\ (file.st_size > max_file_size \/ unsupported)) =>
                 /\ probe.state.success = FALSE
                 /\ probe.state.message # <<>>
                 /\ probe.state.content = <<>>
                 /\ probe.state.word_count = 0
                 /\ probe.state.char_count = 0
           /\ probe.state.success = TRUE =>
                 (file.exists /\ file.st_size <= max_file_size /\ ~unsupported)

\* search_web of ChromeIntegration was applied to a page
Searched == probe.op = "ChromeIntegration.search_web"

\* C26: search_web does not raise and returns at most num_results results; it
\* returns the empty sequence when the page has no result, and one result with
\* title "Chrome Integration Not Available" or "Search Error" and empty url when
\* no browser library is installed or the browser fails.
C26_SearchWebContract ==
    Searched =>
        LET given == probe.before
            results == probe.state
            works == given.backend # "none" /\ given.launched
        IN /\ ~probe.raised
           /\ Len(results) <= given.num_results
           /\ (works /\ given.page = <<>>) => results = <<>>
           /\ ~works =>
                 /\ Len(results) = 1
                 /\ results[1].title \in {<<"Chrome Integration Not Available">>,
                                          <<"Search Error">>}
                 /\ results[1].url = <<>>

\* C29: the wrapper of async_retry(max_retries = n) calls the function at most
\* n times and not again after a successful attempt, whose result it returns;
\* the i-th sleep follows the i-th failed attempt, lasts delay * 2^(i-1) and is
\* followed by another attempt, so there is none after the n-th; when n
\* attempts have failed it raises the exception of the n-th.  With n = 0 the
\* function is not called and the wrapper raises.
C29_RetryContract ==
    retry.pc # "idle" =>
        LET n == retry.max_retries
            made == Len(retry.outcomes)
            slept == Len(retry.sleeps)
        IN /\ made <= n
           /\ \A i \in 1..(made - 1) : ~retry.outcomes[i].ok
           /\ (retry.pc = "returned") = (made > 0 /\ retry.outcomes[made].ok)
           /\ retry.pc = "returned" =>
                 (retry.result = retry.outcomes[made].value /\ retry.error = None)
           /\ \A i \in 1..slept : retry.sleeps[i] = retry.delay * 2^(i - 1)
           /\ slept <= made /\ (n >= 1 => slept <= n - 1)
           /\ retry.pc = "sleep" => (slept = made /\ made < n)
           /\ retry.pc = "call" => slept = made
           /\ (retry.pc \in {"returned", "raised"} /\ n >= 1) => slept = made - 1
           /\ (n >= 1 /\ made = n /\ ~retry.outcomes[n].ok) =>
                 (retry.pc = "raised" /\ retry.error = retry.outcomes[n].value)
           /\ n = 0 =>
                 /\ retry.pc = "raised" /\ made = 0 /\ slept = 0
                 /\ retry.result = None /\ retry.error = exc_raise_none

\* three attempts failed, the last with another exception than the first two:
\* two sleeps, the exception of the third attempt raised
C29_Witness ==
    /\ retry.pc = "raised"
    /\ retry.max_retries = 3
    /\ retry.delay = 2
    /\ retry.outcomes = <<Raised(exc_value), Raised(exc_value), Raised(exc_runtime)>>
    /\ retry.sleeps = <<2, 4>>
    /\ retry.error = exc_runtime

\* C30: active_connections holds exactly the websockets that were connected
\* and whose handler has not ended, each once: a websocket whose
\* websocket_endpoint has ended, however it ended, is not in it, and broadcast
\* sends to no connection whose handler has ended.
C30_ConnectionsAreLiveHandlers ==
    LET active == manager.active_connections IN
    /\ {active[i] : i \in 1..Len(active)} = {w \in WebSockets : manager.handler[w] \in Live}
    /\ \A i, j \in 1..Len(active) : i # j => active[i] # active[j]
    /\ \A i \in 1..Len(manager.sent) : manager.sent[i].handler \in Live
====
